---- MODULE Spec2Model ----
(***************************************************************************)
(* Profile resolution of aiida.common.profile: the module-level functions  *)
(* get_current_profile_name, get_profile_config and get_profile, and the   *)
(* Profile accessor class.                                                 *)
(*                                                                         *)
(* A Python string is a sequence of string tokens.  Profile names are      *)
(* sequences of single characters so that startswith is decided character  *)
(* by character; literals and templates are sequences of longer tokens.    *)
(* An optional string (None or a str) is a record [none, str].             *)
(***************************************************************************)
EXTENDS Integers, Sequences, FiniteSets, TLC

VARIABLES
    AIIDADB_PROFILE,  \* settings.AIIDADB_PROFILE: None or a string
    configFile,       \* what setup.get_config() finds: no file, or the store
    pc,               \* position inside get_profile: "idle" or "get_profile:86"
    gp_name,          \* get_profile's local `name` once line 84 has run
    last,             \* the last completed call and its outcome
    prof,             \* a constructed Profile object (its private fields)
    constructed       \* history: the arguments Profile.__init__ was given

vars == <<AIIDADB_PROFILE, configFile, pc, gp_name, last, prof, constructed>>

---------------------------------------------------------------------------
(* Bounds *)

MaxNameLen == 6
MaxValues == 2

Min(a, b) == IF a < b THEN a ELSE b

---------------------------------------------------------------------------
(* Python values *)

NoneVal == [none |-> TRUE, str |-> <<>>]
Some(s) == [none |-> FALSE, str |-> s]

\* Python truthiness of an optional string: None and '' are falsy.
Truthy(v) == ~v.none /\ v.str # <<>>

\* The outcome of a call: a returned value or a raised exception.
Ret(v) == [exc |-> "", msg |-> <<>>, val |-> v]
Raise(e, m) == [exc |-> e, msg |-> m, val |-> <<>>]

\* str.startswith
StartsWith(s, p) == Len(p) <= Len(s) /\ \A i \in 1..Len(p) : s[i] = p[i]

\* `needle in haystack` on strings
Contains(hay, needle) ==
    \E i \in 0..(Len(hay) - Len(needle)) :
        \A j \in 1..Len(needle) : hay[i + j] = needle[j]

\* str.format with one replacement field: every token equal to the field is
\* replaced by the argument's text, every other token is copied.
RECURSIVE Format(_, _, _)
Format(template, field, arg) ==
    IF template = <<>> THEN <<>>
    ELSE (IF Head(template) = field THEN arg ELSE <<Head(template)>>)
         \o Format(Tail(template), field, arg)

\* os.path.join of three relative components
PathJoin(a, b, c) == a \o <<"/">> \o b \o <<"/">> \o c

---------------------------------------------------------------------------
(* Module constants, profile.py lines 24-36 and 96 *)

\* setup.AIIDA_CONFIG_FOLDER, an opaque directory path
CONFIG_DIR == <<"<AIIDA_CONFIG_FOLDER>">>
DAEMON_DIR == <<"daemon">>
DAEMON_LOG_DIR == <<"daemon/log">>

CIRCUS_PID_FILE_TEMPLATE == PathJoin(CONFIG_DIR, DAEMON_DIR, <<"circus-", "{}", ".pid">>)
DAEMON_PID_FILE_TEMPLATE == PathJoin(CONFIG_DIR, DAEMON_DIR, <<"aiida-", "{}", ".pid">>)
CIRCUS_LOG_FILE_TEMPLATE == PathJoin(CONFIG_DIR, DAEMON_LOG_DIR, <<"circus-", "{}", ".log">>)
DAEMON_LOG_FILE_TEMPLATE == PathJoin(CONFIG_DIR, DAEMON_LOG_DIR, <<"aiida-", "{}", ".log">>)
CIRCUS_PORT_FILE_TEMPLATE == PathJoin(CONFIG_DIR, DAEMON_DIR, <<"circus-", "{}", ".port">>)
CIRCUS_SOCKET_FILE_TEMPATE == PathJoin(CONFIG_DIR, DAEMON_DIR, <<"circus-", "{}", ".sockets">>)
CIRCUS_CONTROLLER_SOCKET_TEMPLATE == <<"circus.c.sock">>
CIRCUS_PUBSUB_SOCKET_TEMPLATE == <<"circus.p.sock">>
CIRCUS_STATS_SOCKET_TEMPLATE == <<"circus.s.sock">>

\* Profile._RMQ_PREFIX = 'aiida-{uuid}'
RMQ_PREFIX == <<"aiida-", "{uuid}">>

\* the literal of line 103
TEST_PREFIX == <<"t", "e", "s", "t", "_">>

\* setup.PROFILE_UUID_KEY and setup.DEFAULT_USER_CONFIG_FIELD, the two fixed keys
PROFILE_UUID_KEY == "PROFILE_UUID_KEY"
DEFAULT_USER_CONFIG_FIELD == "DEFAULT_USER_CONFIG_FIELD"

\* the message of line 63
COULD_NOT_LOAD == <<"could not load the configuration file">>

\* the message the loader itself raises MissingConfigurationError with
LOADER_MESSAGE == <<"No configuration file found">>

---------------------------------------------------------------------------
(* The inputs *)

NameBases ==
    { <<"t", "e", "s", "t", "_", "a", "b">>,
      <<"a", "t", "e", "s", "t", "_">>,
      <<"p", "r", "o", "d">> }

\* the names a Profile is constructed with: every prefix of a base name
Names == { SubSeq(b, 1, Min(k, Len(b))) : b \in NameBases, k \in 0..MaxNameLen }

\* the names the configuration store can hold an entry for
StoreNames == { <<"t", "e", "s", "t", "_">>, <<"p", "r", "o", "d">> }

\* the names a caller asks for and the override is set to: the store's names,
\* the empty string and a name the store never holds
RequestNames == StoreNames \cup { <<>>, <<"t", "e", "s", "t">> }

Values == { <<"v", ToString(i)>> : i \in 1..MaxValues }

ConfigKeys == { PROFILE_UUID_KEY, DEFAULT_USER_CONFIG_FIELD }

\* a profile's configuration: a dict over any subset of the two keys
Configs == UNION { [K -> Values] : K \in SUBSET ConfigKeys }

ProfileTables == UNION { [D -> Configs] : D \in SUBSET StoreNames }

NoFile == [exists |-> FALSE, profiles |-> [n \in {} |-> <<>>], default_profile |-> <<>>]

\* the configuration file is absent, or holds a profiles table and a default name
ConfigFiles ==
    { NoFile } \cup
    { [exists |-> TRUE, profiles |-> t, default_profile |-> d] :
        t \in ProfileTables, d \in StoreNames }

OptionalNames == { NoneVal } \cup { Some(n) : n \in RequestNames }

NoCall == [op |-> "", arg |-> NoneVal, name |-> NoneVal, exc |-> "", msg |-> <<>>, val |-> <<>>]

\* the record of a completed call: its operation, its argument, the name it
\* resolved (when it got that far) and its outcome
Done(op, arg, name, outcome) ==
    [op |-> op, arg |-> arg, name |-> name,
     exc |-> outcome.exc, msg |-> outcome.msg, val |-> outcome.val]

NoProfile == [live |-> FALSE, _name |-> <<>>, _config |-> <<>>, _test_profile |-> FALSE]
NotConstructed == [name |-> <<>>, config |-> <<>>]

---------------------------------------------------------------------------
(* The external collaborators: the configuration loader of aiida.common.setup *)
(* and the dict behaviour of AttributeDict                                    *)

\* setup.get_config(): the store, or MissingConfigurationError when no file exists
get_config ==
    IF configFile.exists THEN Ret(configFile)
    ELSE Raise("MissingConfigurationError", LOADER_MESSAGE)

\* setup.get_default_profile_name(): loads the store and returns its default name
get_default_profile_name ==
    LET config == get_config
    IN  IF config.exc # "" THEN config ELSE Ret(config.val.default_profile)

\* AttributeDict(config): a dict holding the same key/value pairs
AttributeDict(config) == [k \in DOMAIN config |-> config[k]]

\* dict.__getitem__: the value, or KeyError carrying the key
GetItem(dict, key) ==
    IF key \in DOMAIN dict THEN Ret(dict[key]) ELSE Raise("KeyError", <<key>>)

---------------------------------------------------------------------------
(* The module-level functions, profile.py lines 39-87 *)

\* get_current_profile_name testing `is not None` instead of truthiness
get_current_profile_name_is_not_none ==
    IF ~AIIDADB_PROFILE.none THEN Ret(AIIDADB_PROFILE.str)
    ELSE get_default_profile_name

\* line 43: settings.AIIDADB_PROFILE or setup.get_default_profile_name()
get_current_profile_name ==
    IF Truthy(AIIDADB_PROFILE) THEN Ret(AIIDADB_PROFILE.str)
    ELSE get_default_profile_name

\* lines 57-58 and 83-84: `if name is None: name = get_current_profile_name()`
resolve_name(name) ==
    IF name.none THEN get_current_profile_name ELSE Ret(name.str)

\* lines 60-70 without the first try block: the loader's error is not re-raised
load_and_lookup_no_reraise(name) ==
    LET config == get_config
    IN  IF config.exc # "" THEN config
        ELSE IF name \in DOMAIN config.val.profiles
        THEN Ret(config.val.profiles[name])
        ELSE Raise("ProfileConfigurationError",
                   Format(<<"invalid profile name \"", "{}", "\"">>, "{}", name))

\* lines 60-70 without the second try block: the KeyError is not caught
load_and_lookup_no_except(name) ==
    LET config == get_config
    IN  IF config.exc = "MissingConfigurationError"
        THEN Raise("MissingConfigurationError", COULD_NOT_LOAD)
        ELSE IF config.exc # "" THEN config
        ELSE GetItem(config.val.profiles, name)

\* lines 60-70 looking up the store's default profile instead of `name`
load_and_lookup_default(name) ==
    LET config == get_config
    IN  IF config.exc = "MissingConfigurationError"
        THEN Raise("MissingConfigurationError", COULD_NOT_LOAD)
        ELSE IF config.exc # "" THEN config
        ELSE IF name \in DOMAIN config.val.profiles
                /\ config.val.default_profile \in DOMAIN config.val.profiles
        THEN Ret(config.val.profiles[config.val.default_profile])
        ELSE Raise("ProfileConfigurationError",
                   Format(<<"invalid profile name \"", "{}", "\"">>, "{}", name))

\* lines 60-70, with `name` a string: load the store, look the name up
load_and_lookup(name) ==
    LET config == get_config
    IN  IF config.exc = "MissingConfigurationError"
        THEN Raise("MissingConfigurationError", COULD_NOT_LOAD)
        ELSE IF config.exc # "" THEN config
        ELSE IF name \in DOMAIN config.val.profiles
        THEN Ret(config.val.profiles[name])
        ELSE Raise("ProfileConfigurationError",
                   Format(<<"invalid profile name \"", "{}", "\"">>, "{}", name))

\* lines 46-70; an exception of line 58 is outside both try blocks and propagates
get_profile_config(name) ==
    LET resolved == resolve_name(name)
    IN  IF resolved.exc # "" THEN resolved ELSE load_and_lookup(resolved.val)

\* Profile.__init__ testing `'test_' in name` instead of name.startswith('test_')
Profile__init__prefix_anywhere(name, config) ==
    [live |-> TRUE,
     _name |-> name,
     _config |-> AttributeDict(config),
     _test_profile |-> Contains(name, TEST_PREFIX)]

\* Profile.__init__, lines 98-103
Profile__init__(name, config) ==
    [live |-> TRUE,
     _name |-> name,
     _config |-> AttributeDict(config),
     _test_profile |-> StartsWith(name, TEST_PREFIX)]

\* lines 86-87 calling get_profile_config() without the name, which resolves it again
get_profile_return_resolving_again(name) ==
    LET config == get_profile_config(NoneVal)
    IN  IF config.exc # "" THEN config ELSE Ret(Profile__init__(name, config.val))

\* lines 86-87 of get_profile, `name` being the string line 84 left
get_profile_return(name) ==
    LET config == get_profile_config(Some(name))
    IN  IF config.exc # "" THEN config ELSE Ret(Profile__init__(name, config.val))

---------------------------------------------------------------------------
(* The Profile accessors, profile.py lines 111-205 *)

\* lines 111-119
Profile_config(self) == Ret(self._config)

\* lines 121-129
Profile_name(self) == Ret(self._name)

\* uuid with the lookup's failure wrapped the way default_user_email wraps its own
uuid_wrapped(self) ==
    LET u == GetItem(self._config, PROFILE_UUID_KEY)
    IN  IF u.exc = "KeyError"
        THEN Raise("ConfigurationError",
                   Format(<<"No '", "{}", "' key found in the AiiDA configuration file">>,
                          "{}", <<PROFILE_UUID_KEY>>))
        ELSE u

\* lines 131-138: no try block, the lookup's failure propagates
uuid(self) == GetItem(self._config, PROFILE_UUID_KEY)

\* rmq_prefix formatting the template with the profile's name
rmq_prefix_of_name(self) ==
    LET u == GetItem(self._config, PROFILE_UUID_KEY)
    IN  IF u.exc # "" THEN u ELSE Ret(Format(RMQ_PREFIX, "{uuid}", self._name))

\* lines 140-148
rmq_prefix(self) ==
    LET u == uuid(self)
    IN  IF u.exc # "" THEN u ELSE Ret(Format(RMQ_PREFIX, "{uuid}", u.val))

\* lines 150-158
is_test_profile(self) == Ret(self._test_profile)

\* default_user_email without the try block
default_user_email_uncaught(self) == GetItem(self._config, DEFAULT_USER_CONFIG_FIELD)

\* lines 160-179: KeyError becomes ConfigurationError naming the key
default_user_email(self) ==
    LET email == GetItem(self._config, DEFAULT_USER_CONFIG_FIELD)
    IN  IF email.exc = "KeyError"
        THEN Raise("ConfigurationError",
                   Format(<<"No '", "{}", "' key found in the AiiDA configuration file">>,
                          "{}", <<DEFAULT_USER_CONFIG_FIELD>>))
        ELSE email

\* filepaths with the daemon's pid file built from the circus template
filepaths_daemon_pid_swapped(self) ==
    LET n == self._name
    IN  Ret([circus |->
                [log |-> Format(CIRCUS_LOG_FILE_TEMPLATE, "{}", n),
                 pid |-> Format(CIRCUS_PID_FILE_TEMPLATE, "{}", n),
                 port |-> Format(CIRCUS_PORT_FILE_TEMPLATE, "{}", n),
                 socket |->
                    [file |-> Format(CIRCUS_SOCKET_FILE_TEMPATE, "{}", n),
                     controller |-> CIRCUS_CONTROLLER_SOCKET_TEMPLATE,
                     pubsub |-> CIRCUS_PUBSUB_SOCKET_TEMPLATE,
                     stats |-> CIRCUS_STATS_SOCKET_TEMPLATE]],
             daemon |->
                [log |-> Format(DAEMON_LOG_FILE_TEMPLATE, "{}", n),
                 pid |-> Format(CIRCUS_PID_FILE_TEMPLATE, "{}", n)]])

\* lines 181-205
filepaths(self) ==
    LET n == Profile_name(self).val
    IN  Ret([circus |->
                [log |-> Format(CIRCUS_LOG_FILE_TEMPLATE, "{}", n),
                 pid |-> Format(CIRCUS_PID_FILE_TEMPLATE, "{}", n),
                 port |-> Format(CIRCUS_PORT_FILE_TEMPLATE, "{}", n),
                 socket |->
                    [file |-> Format(CIRCUS_SOCKET_FILE_TEMPATE, "{}", n),
                     controller |-> CIRCUS_CONTROLLER_SOCKET_TEMPLATE,
                     pubsub |-> CIRCUS_PUBSUB_SOCKET_TEMPLATE,
                     stats |-> CIRCUS_STATS_SOCKET_TEMPLATE]],
             daemon |->
                [log |-> Format(DAEMON_LOG_FILE_TEMPLATE, "{}", n),
                 pid |-> Format(DAEMON_PID_FILE_TEMPLATE, "{}", n)]])

---------------------------------------------------------------------------
(* The environment of the resolver: the override and the configuration file. *)
(* A change of either forgets the last call's record, which spoke of the     *)
(* environment the call ran in.                                              *)

\* settings.AIIDADB_PROFILE is assigned (None, '' or a name)
SetCurrentProfile(v) ==
    /\ v # AIIDADB_PROFILE
    /\ AIIDADB_PROFILE' = v
    /\ last' = NoCall
    /\ UNCHANGED <<configFile, pc, gp_name, prof, constructed>>

\* the configuration file is created, with an empty profiles table
CreateConfigFile(d) ==
    /\ ~configFile.exists
    /\ configFile' = [exists |-> TRUE, profiles |-> [n \in {} |-> <<>>], default_profile |-> d]
    /\ last' = NoCall
    /\ UNCHANGED <<AIIDADB_PROFILE, pc, gp_name, prof, constructed>>

\* the configuration file is removed
RemoveConfigFile ==
    /\ configFile.exists
    /\ configFile' = NoFile
    /\ last' = NoCall
    /\ UNCHANGED <<AIIDADB_PROFILE, pc, gp_name, prof, constructed>>

\* the store's default profile name is changed
SetDefaultProfile(d) ==
    /\ configFile.exists
    /\ d # configFile.default_profile
    /\ configFile' = [configFile EXCEPT !.default_profile = d]
    /\ last' = NoCall
    /\ UNCHANGED <<AIIDADB_PROFILE, pc, gp_name, prof, constructed>>

\* a profile's entry is written to the store's table
SetProfileEntry(n, c) ==
    /\ configFile.exists
    /\ IF n \in DOMAIN configFile.profiles THEN configFile.profiles[n] # c ELSE TRUE
    /\ configFile' =
        [configFile EXCEPT !.profiles =
            [m \in DOMAIN configFile.profiles \cup {n} |->
                IF m = n THEN c ELSE configFile.profiles[m]]]
    /\ last' = NoCall
    /\ UNCHANGED <<AIIDADB_PROFILE, pc, gp_name, prof, constructed>>

\* a profile's entry is deleted from the store's table
DeleteProfileEntry(n) ==
    /\ configFile.exists
    /\ n \in DOMAIN configFile.profiles
    /\ configFile' =
        [configFile EXCEPT !.profiles =
            [m \in DOMAIN configFile.profiles \ {n} |-> configFile.profiles[m]]]
    /\ last' = NoCall
    /\ UNCHANGED <<AIIDADB_PROFILE, pc, gp_name, prof, constructed>>

---------------------------------------------------------------------------
(* The calls of the resolver *)

NameOf(outcome) == IF outcome.exc = "" THEN Some(outcome.val) ELSE NoneVal

\* get_current_profile_name()
CallGetCurrentProfileName ==
    /\ pc = "idle"
    /\ last' = Done("get_current_profile_name", NoneVal, NoneVal, get_current_profile_name)
    /\ UNCHANGED <<AIIDADB_PROFILE, configFile, pc, gp_name, prof, constructed>>

\* get_profile_config(name)
CallGetProfileConfig(arg) ==
    /\ pc = "idle"
    /\ last' = Done("get_profile_config", arg, NameOf(resolve_name(arg)), get_profile_config(arg))
    /\ UNCHANGED <<AIIDADB_PROFILE, configFile, pc, gp_name, prof, constructed>>

\* get_profile(name), lines 83-84: the name is resolved; a failure ends the call
GetProfileResolve(arg) ==
    /\ pc = "idle"
    /\ LET resolved == resolve_name(arg)
       IN  IF resolved.exc # ""
           THEN /\ last' = Done("get_profile", arg, NoneVal, resolved)
                /\ UNCHANGED <<pc, gp_name>>
           ELSE /\ pc' = "get_profile:86"
                /\ gp_name' = [arg |-> arg, name |-> resolved.val]
                /\ last' = NoCall
    /\ UNCHANGED <<AIIDADB_PROFILE, configFile, prof, constructed>>

\* get_profile(name), lines 86-87: the config is looked up, the Profile built
GetProfileReturn ==
    /\ pc = "get_profile:86"
    /\ last' = Done("get_profile", gp_name.arg, Some(gp_name.name), get_profile_return(gp_name.name))
    /\ pc' = "idle"
    /\ gp_name' = [arg |-> NoneVal, name |-> <<>>]
    /\ UNCHANGED <<AIIDADB_PROFILE, configFile, prof, constructed>>

Init ==
    /\ AIIDADB_PROFILE \in OptionalNames
    /\ configFile \in ConfigFiles
    /\ pc = "idle"
    /\ gp_name = [arg |-> NoneVal, name |-> <<>>]
    /\ last = NoCall
    /\ prof = NoProfile
    /\ constructed = NotConstructed

Next ==
    \/ \E v \in OptionalNames : SetCurrentProfile(v)
    \/ \E d \in StoreNames : CreateConfigFile(d)
    \/ RemoveConfigFile
    \/ \E d \in StoreNames : SetDefaultProfile(d)
    \/ \E n \in StoreNames, c \in Configs : SetProfileEntry(n, c)
    \/ \E n \in StoreNames : DeleteProfileEntry(n)
    \/ CallGetCurrentProfileName
    \/ \E arg \in OptionalNames : CallGetProfileConfig(arg)
    \/ \E arg \in OptionalNames : GetProfileResolve(arg)
    \/ GetProfileReturn

Spec == Init /\ [][Next]_vars

---------------------------------------------------------------------------
(* A Profile object on its own: construction and any sequence of accessor    *)
(* calls.  The accessors read nothing but the object.                        *)

Access(op, outcome) ==
    /\ prof.live
    /\ last' = Done(op, NoneVal, NoneVal, outcome)
    /\ UNCHANGED <<AIIDADB_PROFILE, configFile, pc, gp_name, prof, constructed>>

\* Profile(name, config)
Construct(n, c) ==
    /\ prof' = Profile__init__(n, c)
    /\ constructed' = [name |-> n, config |-> c]
    /\ last' = Done("Profile", Some(n), NoneVal, Ret(<<>>))
    /\ UNCHANGED <<AIIDADB_PROFILE, configFile, pc, gp_name>>

AccessConfig == Access("config", Profile_config(prof))
AccessName == Access("name", Profile_name(prof))
AccessUuid == Access("uuid", uuid(prof))
AccessRmqPrefix == Access("rmq_prefix", rmq_prefix(prof))
AccessIsTestProfile == Access("is_test_profile", is_test_profile(prof))
AccessDefaultUserEmail == Access("default_user_email", default_user_email(prof))
AccessFilepaths == Access("filepaths", filepaths(prof))

InitProfile ==
    /\ AIIDADB_PROFILE = NoneVal
    /\ configFile = NoFile
    /\ pc = "idle"
    /\ gp_name = [arg |-> NoneVal, name |-> <<>>]
    /\ last = NoCall
    /\ prof = NoProfile
    /\ constructed = NotConstructed

NextProfile ==
    \/ \E n \in Names, c \in Configs : Construct(n, c)
    \/ AccessConfig
    \/ AccessName
    \/ AccessUuid
    \/ AccessRmqPrefix
    \/ AccessIsTestProfile
    \/ AccessDefaultUserEmail
    \/ AccessFilepaths

SpecProfile == InitProfile /\ [][NextProfile]_vars

---------------------------------------------------------------------------
(* Properties of a Profile object, checked under SpecProfile *)

HasKey(config, key) == key \in DOMAIN config

\* C5: constructing a Profile over a config without the default-user-email key
\* does not raise; every later access of default_user_email raises
\* ConfigurationError whose message names the key, a config holding the key
\* gives its value, and name, config, is_test_profile and filepaths return
\* normally whether or not the key is there.
C5_EmailFailureIsLazy ==
    /\ last.op = "Profile" => last.exc = "" /\ prof.live
    /\ last.op = "default_user_email" =>
         IF HasKey(constructed.config, DEFAULT_USER_CONFIG_FIELD)
         THEN last.exc = "" /\ last.val = constructed.config[DEFAULT_USER_CONFIG_FIELD]
         ELSE /\ last.exc = "ConfigurationError"
              /\ Contains(last.msg, <<DEFAULT_USER_CONFIG_FIELD>>)
    /\ last.op \in {"name", "config", "is_test_profile", "filepaths"} => last.exc = ""
    /\ last.op = "config" => last.val = constructed.config

C5_Witness ==
    /\ last.op = "default_user_email"
    /\ ~HasKey(constructed.config, DEFAULT_USER_CONFIG_FIELD)
    /\ HasKey(constructed.config, PROFILE_UUID_KEY)
    /\ last.exc = "ConfigurationError"

\* C6: with the UUID key missing from the config, uuid and rmq_prefix fail with
\* the raw KeyError of the lookup, carrying the key: no ConfigurationError, no
\* default value; default_user_email over a config missing its key raises
\* ConfigurationError instead.
C6_UuidFailureIsRaw ==
    /\ last.op \in {"uuid", "rmq_prefix"} /\ ~HasKey(constructed.config, PROFILE_UUID_KEY) =>
         last.exc = "KeyError" /\ last.msg = <<PROFILE_UUID_KEY>>
    /\ last.op = "default_user_email" /\ ~HasKey(constructed.config, DEFAULT_USER_CONFIG_FIELD) =>
         last.exc = "ConfigurationError"

C6_Witness ==
    /\ last.op = "rmq_prefix"
    /\ ~HasKey(constructed.config, PROFILE_UUID_KEY)
    /\ ~HasKey(constructed.config, DEFAULT_USER_CONFIG_FIELD)
    /\ last.exc = "KeyError"

\* C7: for a profile whose config holds the UUID key with value u, rmq_prefix
\* returns "aiida-" followed by u, whatever the name and the other keys are.
C7_RmqPrefix ==
    last.op = "rmq_prefix" /\ HasKey(constructed.config, PROFILE_UUID_KEY) =>
        /\ last.exc = ""
        /\ last.val = <<"aiida-">> \o constructed.config[PROFILE_UUID_KEY]

C7_Witness ==
    /\ last.op = "rmq_prefix"
    /\ HasKey(constructed.config, PROFILE_UUID_KEY)
    /\ HasKey(constructed.config, DEFAULT_USER_CONFIG_FIELD)
    /\ constructed.config[DEFAULT_USER_CONFIG_FIELD] # constructed.config[PROFILE_UUID_KEY]
    /\ constructed.name = TEST_PREFIX
    /\ last.val = <<"aiida-">> \o constructed.config[PROFILE_UUID_KEY]

\* the six templated paths and three fixed socket names, written out for a name
ExpectedFilepaths(n) ==
    [circus |->
        [log |-> CONFIG_DIR \o <<"/", "daemon/log", "/", "circus-">> \o n \o <<".log">>,
         pid |-> CONFIG_DIR \o <<"/", "daemon", "/", "circus-">> \o n \o <<".pid">>,
         port |-> CONFIG_DIR \o <<"/", "daemon", "/", "circus-">> \o n \o <<".port">>,
         socket |->
            [file |-> CONFIG_DIR \o <<"/", "daemon", "/", "circus-">> \o n \o <<".sockets">>,
             controller |-> <<"circus.c.sock">>,
             pubsub |-> <<"circus.p.sock">>,
             stats |-> <<"circus.s.sock">>]],
     daemon |->
        [log |-> CONFIG_DIR \o <<"/", "daemon/log", "/", "aiida-">> \o n \o <<".log">>,
         pid |-> CONFIG_DIR \o <<"/", "daemon", "/", "aiida-">> \o n \o <<".pid">>]]

\* C8: filepaths never raises and is a function of the profile's name alone:
\* each templated path is its template with the name substituted, the three
\* socket names are the fixed ones, whatever the config is and however often
\* the accessor has been called.
C8_FilepathsOfName ==
    last.op = "filepaths" =>
        last.exc = "" /\ last.val = ExpectedFilepaths(constructed.name)

C8_Witness ==
    /\ last.op = "filepaths"
    /\ constructed.name = <<"p", "r", "o", "d">>
    /\ constructed.config # <<>>
    /\ last.val.daemon.pid = CONFIG_DIR \o <<"/", "daemon", "/", "aiida-", "p", "r", "o", "d", ".pid">>
    /\ last.val.circus.socket.controller = <<"circus.c.sock">>

\* name.startswith("test_"), written out
NameStartsWithTest(n) == Len(n) >= 5 /\ SubSeq(n, 1, 5) = <<"t", "e", "s", "t", "_">>

\* C9: in every state after construction, whatever accessors were called and
\* whether or not they raised, the Profile's name is the name it was
\* constructed with and is_test_profile is name.startswith("test_").
C9_NameAndTestFlagFixed ==
    prof.live =>
        /\ prof._name = constructed.name
        /\ prof._test_profile = NameStartsWithTest(constructed.name)
        /\ last.op = "name" => last.exc = "" /\ last.val = constructed.name
        /\ last.op = "is_test_profile" =>
             last.exc = "" /\ last.val = NameStartsWithTest(constructed.name)

C9_Witness ==
    /\ prof.live
    /\ last.op = "is_test_profile"
    /\ last.val = FALSE
    /\ Contains(constructed.name, TEST_PREFIX)

---------------------------------------------------------------------------
(* Properties of the resolver, checked under Spec *)

Resolving == {"get_profile_config", "get_profile"}

\* C1 as stated: every get_profile_config or get_profile call that ends while
\* the configuration file cannot be loaded raises MissingConfigurationError
\* with the message "could not load the configuration file".
C1_AlwaysClarifiedMessage ==
    last.op \in Resolving /\ ~configFile.exists =>
        last.exc = "MissingConfigurationError" /\ last.msg = COULD_NOT_LOAD

\* C1 as amended: such a call always raises MissingConfigurationError; the
\* message is "could not load the configuration file" whenever the name is
\* given or a non-empty override is set; with the name omitted and no
\* non-empty override set, the call fails while resolving the default name and
\* the message is the loader's own.  (get_profile gives the clarifying message
\* in that case only if the file was still there when it resolved the name.)
C1_ClarifiedOnceNameIsKnown ==
    last.op \in Resolving /\ ~configFile.exists =>
        /\ last.exc = "MissingConfigurationError"
        /\ ~last.arg.none \/ Truthy(AIIDADB_PROFILE) => last.msg = COULD_NOT_LOAD
        /\ last.arg.none /\ ~Truthy(AIIDADB_PROFILE) /\ last.name.none =>
             last.msg = LOADER_MESSAGE
        /\ last.op = "get_profile_config" /\ last.arg.none /\ ~Truthy(AIIDADB_PROFILE) =>
             last.name.none
        /\ last.msg # COULD_NOT_LOAD =>
             /\ last.msg = LOADER_MESSAGE
             /\ last.arg.none
             /\ ~Truthy(AIIDADB_PROFILE)
             /\ last.name.none

C1_Witness ==
    /\ last.op = "get_profile"
    /\ ~configFile.exists
    /\ last.arg = Some(<<"p", "r", "o", "d">>)
    /\ AIIDADB_PROFILE.none
    /\ last.exc = "MissingConfigurationError"
    /\ last.msg = COULD_NOT_LOAD

\* C2 as stated: get_current_profile_name returns the override whenever one is
\* set, whatever its value, without consulting the store; with none set it
\* returns the store's default profile name.
C2_OverrideWheneverSet ==
    last.op = "get_current_profile_name" =>
        IF ~AIIDADB_PROFILE.none
        THEN last.exc = "" /\ last.val = AIIDADB_PROFILE.str
        ELSE configFile.exists =>
                last.exc = "" /\ last.val = configFile.default_profile

\* C2 as amended: get_current_profile_name returns the override whenever it is
\* set to a non-empty string, and then does not consult the store, so it does
\* not fail when no configuration file exists; an unset or empty override
\* gives the store's default profile name, or the loader's
\* MissingConfigurationError when no configuration file exists.
C2_OverrideWhenNonEmpty ==
    last.op = "get_current_profile_name" =>
        IF ~AIIDADB_PROFILE.none /\ AIIDADB_PROFILE.str # <<>>
        THEN last.exc = "" /\ last.val = AIIDADB_PROFILE.str
        ELSE IF configFile.exists
        THEN last.exc = "" /\ last.val = configFile.default_profile
        ELSE last.exc = "MissingConfigurationError" /\ last.msg = LOADER_MESSAGE

C2_Witness ==
    /\ last.op = "get_current_profile_name"
    /\ ~configFile.exists
    /\ AIIDADB_PROFILE = Some(<<"p", "r", "o", "d">>)
    /\ last.exc = ""
    /\ last.val = <<"p", "r", "o", "d">>

\* C3: get_profile(n), for a name n the loaded store holds an entry for,
\* returns a Profile whose name is n and whose config holds exactly the
\* key/value pairs of the store's entry for n.
C3_ProfileOfStoredName ==
    /\ last.op = "get_profile"
    /\ ~last.arg.none
    /\ configFile.exists
    /\ last.arg.str \in DOMAIN configFile.profiles
    => /\ last.exc = ""
       /\ last.val._name = last.arg.str
       /\ DOMAIN last.val._config = DOMAIN configFile.profiles[last.arg.str]
       /\ \A k \in DOMAIN last.val._config :
            last.val._config[k] = configFile.profiles[last.arg.str][k]

C3_Witness ==
    /\ last.op = "get_profile"
    /\ last.arg = Some(TEST_PREFIX)
    /\ last.exc = ""
    /\ last.val._name = TEST_PREFIX
    /\ DOMAIN last.val._config = ConfigKeys
    /\ configFile.default_profile # TEST_PREFIX
    /\ configFile.default_profile \in DOMAIN configFile.profiles
    /\ configFile.profiles[configFile.default_profile] # configFile.profiles[TEST_PREFIX]

\* C4: with the store loaded, a get_profile_config or get_profile call whose
\* requested name (the argument, or the resolved current name when the
\* argument is omitted) has no entry in the profiles table raises
\* ProfileConfigurationError with the name in its message, and returns nothing.
C4_UnknownNameRejected ==
    last.op \in Resolving /\ configFile.exists =>
        /\ ~last.name.none
        /\ ~last.arg.none => last.name = last.arg
        /\ last.op = "get_profile_config" /\ last.arg.none =>
             last.name.str = IF ~AIIDADB_PROFILE.none /\ AIIDADB_PROFILE.str # <<>>
                             THEN AIIDADB_PROFILE.str
                             ELSE configFile.default_profile
        /\ last.name.str \notin DOMAIN configFile.profiles =>
             /\ last.exc = "ProfileConfigurationError"
             /\ Contains(last.msg, last.name.str)
             /\ last.val = <<>>

C4_Witness ==
    /\ last.op = "get_profile"
    /\ configFile.exists
    /\ last.arg = Some(<<"t", "e", "s", "t">>)
    /\ DOMAIN configFile.profiles = StoreNames
    /\ last.exc = "ProfileConfigurationError"
    /\ Contains(last.msg, <<"t", "e", "s", "t">>)

\* C10: get_profile() with the name omitted resolves the name once: the
\* Profile it returns carries the resolved name, and its config is the store's
\* entry for that same name, also when the override or the store's default
\* name changed between the resolution and the lookup.
C10_ResolvedOnce ==
    last.op = "get_profile" /\ last.arg.none /\ last.exc = "" =>
        /\ last.val._name = last.name.str
        /\ last.val._name \in DOMAIN configFile.profiles
        /\ last.val._config = configFile.profiles[last.val._name]

C10_Witness ==
    /\ last.op = "get_profile"
    /\ last.arg.none
    /\ last.exc = ""
    /\ Truthy(AIIDADB_PROFILE)
    /\ AIIDADB_PROFILE.str # last.val._name
    /\ AIIDADB_PROFILE.str \in DOMAIN configFile.profiles
    /\ configFile.profiles[AIIDADB_PROFILE.str] # last.val._config
    /\ configFile.default_profile # last.val._name

====
